---- MODULE Spec2Model ----
(***************************************************************************)
(* Model of axescache.py: RenderCapture (a captured frame of an Axes'      *)
(* render) and AxesCache (the draw override that serves the captured frame *)
(* until the mouse button is released).                                    *)
(*                                                                         *)
(* Device coordinates are floats in the source.  Here they are fixed-point *)
(* numbers: an integer v stands for v / Sub device pixels.  Pixel indices  *)
(* (after .astype(np.int)) are plain integers.                             *)
(***************************************************************************)
EXTENDS Integers, Sequences, FiniteSets

VARIABLES
    axes,          \* the managed Axes: view limits, scales, device bbox, draw handler
    renderer,      \* the render backend: device pixel width and height
    callbacks,     \* the canvas' connections: <<[event, handler], ...>>
    overview_img,  \* AxesCache.overview_img: None or a RenderCapture
    rendered,      \* what the handler that just ran drew or built, in order
    drawnMesh,     \* the mesh that handler drew (NoMesh: it drew none)
    thrown,        \* the call that raised inside that handler ("none": no call)
    raised,        \* the exception that handler let escape ("none": it returned)
    fullDraws,     \* how many times Axes.draw has been invoked
    captures,      \* how many RenderCapture objects have been constructed
    history        \* what happened since the cache was last cleared

vars == <<axes, renderer, callbacks, overview_img, rendered, drawnMesh, thrown, raised,
          fullDraws, captures, history>>

(***************************************************************************)
(* Bounds                                                                  *)
(***************************************************************************)
\* device coordinates are multiples of 1/Sub pixel
Sub == 2
\* Axes.draw is invoked at most this many times
MaxFullDraws == 3

\* the 5 pixel inset of _get_corners
Inset == 5

\* Python's None, as a record so that it compares with a RenderCapture
None == [id |-> 0]

Max(a, b) == IF a > b THEN a ELSE b
Min(a, b) == IF a < b THEN a ELSE b

\* p pixels and f sub-pixel steps, as a device coordinate
Px(p, f) == p * Sub + f

(***************************************************************************)
(* The host: view limits, scales, figure layouts                           *)
(***************************************************************************)
Scales == {"linear", "log"}

\* data-space view limits (xlim, ylim), powers of ten so that their log10 is
\* an integer; the last one has an inverted y axis
Views ==
    { [xlim |-> <<1, 100>>,  ylim |-> <<1, 100>>],
      [xlim |-> <<10, 100>>, ylim |-> <<1, 10>>],
      [xlim |-> <<1, 100>>,  ylim |-> <<100, 1>>] }

\* a device extent <<low, high>> along one axis
Span(lo, hi) == <<lo, hi>>

\* figure layouts: the canvas size in device pixels and the device bbox of the
\* axes within it (x: left, right; y: bottom, top; the origin of device
\* coordinates is the bottom left corner of the canvas)
Layouts ==
    { \* whole pixels, the axes centred in the canvas
      [width |-> 32, height |-> 32,
       x |-> Span(Px(4, 0), Px(28, 0)), y |-> Span(Px(4, 0), Px(28, 0))],
      \* fractional edges, the axes low in the canvas
      [width |-> 32, height |-> 32,
       x |-> Span(Px(4, 1), Px(28, 0)), y |-> Span(Px(2, 0), Px(20, 1))],
      \* just over 10 pixels wide
      [width |-> 32, height |-> 32,
       x |-> Span(Px(4, 0), Px(14, 1)), y |-> Span(Px(4, 0), Px(28, 0))],
      \* exactly 10 pixels high
      [width |-> 32, height |-> 32,
       x |-> Span(Px(4, 0), Px(28, 0)), y |-> Span(Px(4, 0), Px(14, 0))],
      \* a larger canvas; fractional edges a whole number of pixels apart
      [width |-> 40, height |-> 36,
       x |-> Span(Px(5, 0), Px(35, 0)), y |-> Span(Px(4, 1), Px(31, 1))] }

\* axes.spines: the four spines, in the order the dict was filled
Spines == <<"left", "right", "bottom", "top">>

\* the orders in which axes.spines.values() may yield them: the dict's
\* insertion order, or (a plain dict) some other one
SpineOrders ==
    { Spines, <<"top", "bottom", "left", "right">> }

(***************************************************************************)
(* numpy helpers                                                           *)
(***************************************************************************)
\* float -> int of ndarray.astype(np.int): truncation toward zero
AsTypeInt(v) == IF v >= 0 THEN v \div Sub ELSE -((-v) \div Sub)

\* a range that includes its stop value
ArangeInclusive(start, stop) ==
    [i \in 1..Max(stop - start + 1, 0) |-> start + i - 1]

\* np.arange(start, stop) with step 1: start, start+1, ..., stop-1
Arange(start, stop) == [i \in 1..Max(stop - start, 0) |-> start + i - 1]

\* the indices a[lo:hi] selects from an axis of length n (no negative lo, hi here)
SliceIndices(lo, hi, n) == { i \in 0..(n - 1) : lo <= i /\ i < hi }

(***************************************************************************)
(* RenderCapture                                                           *)
(***************************************************************************)
\* axes.transData.transform(pts): the view limits map to the corners of the
\* axes' device bbox, whatever the limits and the scales are
TransDataCorners(a) ==
    << <<a.bbox.x[1], a.bbox.y[1]>>, <<a.bbox.x[2], a.bbox.y[2]>> >>

(* Data coordinates.  A data coordinate is a record [scale, q]: q = <<n, d>>,
   d > 0, is the exact fraction n / d that the axis scale maps the value to
   (the value itself on a linear axis, its log10 on a log axis). *)
RECURSIVE Log10(_)
Log10(v) == IF v <= 1 THEN 0 ELSE 1 + Log10(v \div 10)

\* the scale's own transform (axes.transScale) of a view limit
ScaleOf(scale, v) == IF scale = "log" THEN Log10(v) ELSE v

\* a fraction with a positive denominator
Frac(n, d) == IF d < 0 THEN <<-n, -d>> ELSE <<n, d>>

\* an inverse transform that forgets where the axes start on the canvas
InvTransformNoOffset(lim, scale, b, p) ==
    LET s0 == ScaleOf(scale, lim[1])
        s1 == ScaleOf(scale, lim[2])
    IN  [scale |-> scale,
         q |-> Frac(s0 * (b[2] - b[1]) + (p * Sub) * (s1 - s0), b[2] - b[1])]

\* axes.transData.inverted().transform along one axis: the data coordinate of
\* device pixel p, for view limits lim shown over the device extent b
InvTransform(lim, scale, b, p) ==
    LET s0 == ScaleOf(scale, lim[1])
        s1 == ScaleOf(scale, lim[2])
    IN  [scale |-> scale,
         q |-> Frac(s0 * (b[2] - b[1]) + (p * Sub - b[1]) * (s1 - s0),
                    b[2] - b[1])]

\* axes.transData.transform along one axis: the device coordinate, as a
\* fraction of 1/Sub pixels, of data coordinate d
Transform(lim, scale, b, d) ==
    LET s0 == ScaleOf(scale, lim[1])
        s1 == ScaleOf(scale, lim[2])
    IN  Frac(b[1] * (s1 - s0) * d.q[2] + (d.q[1] - s0 * d.q[2]) * (b[2] - b[1]),
             (s1 - s0) * d.q[2])

\* the device width and height of the view, in 1/Sub pixels
ViewSize(a) ==
    LET t == TransDataCorners(a) IN <<t[2][1] - t[1][1], t[2][2] - t[1][2]>>

\* RenderCapture._get_corners, corners: the device corners of the view as
\* integers, the lower one moved in by 5 pixels, the upper one moved back by 5
InsetCorners(a) ==
    LET t == TransDataCorners(a)
    IN  [lo |-> <<AsTypeInt(t[1][1]) + Inset, AsTypeInt(t[1][2]) + Inset>>,
         hi |-> <<AsTypeInt(t[2][1]) - Inset, AsTypeInt(t[2][2]) - Inset>>]

\* the inset box has no pixel column or no pixel row
Degenerate(a) ==
    LET c == InsetCorners(a)
    IN  c.hi[1] - c.lo[1] <= 0 \/ c.hi[2] - c.lo[2] <= 0

\* RenderCapture._get_corners: pixel columns px and pixel rows py of the box
\* inset 5 pixels from the corners of the view
GetCorners(a) ==
    LET c == InsetCorners(a)
    IN  [px |-> Arange(c.lo[1], c.hi[1]), py |-> Arange(c.lo[2], c.hi[2])]

\* RenderCapture._get_corners: the data x of each pixel column of the box
Dx(a) ==
    LET px == GetCorners(a).px
    IN  [i \in DOMAIN px |-> InvTransform(a.xlim, a.xscale, a.bbox.x, px[i])]

\* RenderCapture._get_corners: the data y of each pixel row of the box
Dy(a) ==
    LET py == GetCorners(a).py
    IN  [i \in DOMAIN py |-> InvTransform(a.ylim, a.yscale, a.bbox.y, py[i])]

\* an extent with the y ends the wrong way round
ExtentFlipped(dx, dy) == <<dx[1], dx[Len(dx)], dy[Len(dy)], dy[1]>>

\* the extent given to the image: (dx[0], dx[-1], dy[0], dy[-1])
Extent(dx, dy) == <<dx[1], dx[Len(dx)], dy[1], dy[Len(dy)]>>

\* RenderCapture.extract_image: the buffer is height rows by width columns
ExtractImage(r) == [rows |-> r.height, cols |-> r.width]

\* the row of the buffer of extract_image that shows device pixel row y: row 0
\* is the top of the canvas, device y grows from its bottom
BufferRow(y, height) == height - 1 - y

\* px[0] or py[0] of an empty array raises IndexError in RenderCapture.__init__
CaptureRaises(a) ==
    LET c == GetCorners(a) IN Len(c.px) = 0 \/ Len(c.py) = 0

\* RenderCapture.__init__, when it does not raise: the n-th capture
RenderCapture(a, r, n) ==
    LET im == ExtractImage(r)
        c  == GetCorners(a)
        px == c.px
        py == c.py
    IN  [ id   |-> n,
          rows |-> SliceIndices(py[1], py[Len(py)] + 1, im.rows),
          cols |-> SliceIndices(px[1], px[Len(px)] + 1, im.cols),
          px   |-> <<px[1], px[Len(px)]>>,
          py   |-> <<py[1], py[Len(py)]>>,
          extent |-> Extent(Dx(a), Dy(a)),
          \* the mesh grid dx, dy comes from the limits, scales and bbox
          \* at construction
          mesh |-> [xscale |-> a.xscale, yscale |-> a.yscale,
                    xlim |-> a.xlim, ylim |-> a.ylim, bbox |-> a.bbox] ]

\* a constructor that leaves its mesh among the collections of the Axes
CollectionsWithMeshLeft(cs, n) == cs \cup {n}

\* axes.collections after RenderCapture.__init__ has run to its end: pcolormesh
\* adds the mesh (of the n-th capture) to them, remove takes it out again
CollectionsAfterCapture(cs, n) == (cs \cup {n}) \ {n}

\* a draw that takes the image when either axis is linear
CaptureDrawEitherLinear(a) ==
    IF a.xscale = "linear" \/ a.yscale = "linear" THEN "im" ELSE "mesh"

\* RenderCapture.draw: the representation drawn under the current scales
CaptureDraw(a) ==
    IF a.xscale = "linear" /\ a.yscale = "linear" THEN "im" ELSE "mesh"

\* no mesh
NoMesh == [xscale |-> "none"]

\* a draw that builds the mesh anew for the Axes as it is at the draw
MeshRecomputed(f, a) ==
    IF CaptureDraw(a) = "mesh"
    THEN [xscale |-> a.xscale, yscale |-> a.yscale,
          xlim |-> a.xlim, ylim |-> a.ylim, bbox |-> a.bbox]
    ELSE NoMesh

\* RenderCapture.draw: the mesh it draws, self.mesh as __init__ built it
MeshDrawn(f, a) ==
    IF CaptureDraw(a) = "mesh" THEN f.mesh ELSE NoMesh

(***************************************************************************)
(* AxesCache                                                               *)
(***************************************************************************)
\* how often step occurs in a sequence of steps
Count(step, steps) == Cardinality({ i \in DOMAIN steps : steps[i] = step })

\* a reset that leaves the slot as it is
resetKeepsFrame(slot) == slot

\* AxesCache.reset
reset(slot) == None

\* a draw that takes the full-draw branch whatever the slot holds
IsMissAlways(slot) == TRUE

\* AxesCache.draw takes the full-draw branch
IsMiss(slot) == slot = None

\* a miss branch that builds the capture before the full draw
MissBranchCaptureFirst(slot, a, r, n, drawOk) ==
    IF CaptureRaises(a)
    THEN [slot |-> slot, rendered |-> <<>>, thrown |-> "RenderCapture"]
    ELSE IF ~drawOk
    THEN [slot |-> slot, rendered |-> <<"RenderCapture", "Axes.draw">>,
          thrown |-> "Axes.draw"]
    ELSE [slot |-> RenderCapture(a, r, n),
          rendered |-> <<"RenderCapture", "Axes.draw">>, thrown |-> "none"]

\* a miss branch that constructs the capture and drops it
MissBranchNoStore(slot, a, r, n, drawOk) ==
    IF ~drawOk
    THEN [slot |-> slot, rendered |-> <<"Axes.draw">>, thrown |-> "Axes.draw"]
    ELSE IF CaptureRaises(a)
    THEN [slot |-> slot, rendered |-> <<"Axes.draw">>, thrown |-> "RenderCapture"]
    ELSE [slot |-> slot,
          rendered |-> <<"Axes.draw", "RenderCapture">>, thrown |-> "none"]

\* a miss branch that assigns the slot before the capture is complete
MissBranchStoresPartial(slot, a, r, n, drawOk) ==
    IF ~drawOk
    THEN [slot |-> slot, rendered |-> <<"Axes.draw">>, thrown |-> "Axes.draw"]
    ELSE IF CaptureRaises(a)
    THEN [slot |-> [id |-> n, rows |-> {}, cols |-> {},
                    px |-> <<0, 0>>, py |-> <<0, 0>>,
                    extent |-> Extent(<<0>>, <<0>>),
                    mesh |-> [xscale |-> a.xscale, yscale |-> a.yscale,
                              xlim |-> a.xlim, ylim |-> a.ylim,
                              bbox |-> a.bbox]],
          rendered |-> <<"Axes.draw">>, thrown |-> "RenderCapture"]
    ELSE [slot |-> RenderCapture(a, r, n),
          rendered |-> <<"Axes.draw", "RenderCapture">>, thrown |-> "none"]

\* a miss branch that catches what the capture raises and returns normally
MissBranchSwallowsCaptureError(slot, a, r, n, drawOk) ==
    IF ~drawOk
    THEN [slot |-> slot, rendered |-> <<"Axes.draw">>, thrown |-> "Axes.draw"]
    ELSE IF CaptureRaises(a)
    THEN [slot |-> slot, rendered |-> <<"Axes.draw">>, thrown |-> "none"]
    ELSE [slot |-> RenderCapture(a, r, n),
          rendered |-> <<"Axes.draw", "RenderCapture">>, thrown |-> "none"]

\* the cache-miss branch of AxesCache.draw, for the n-th capture; drawOk: Axes.draw
\* returns normally.  thrown names the call that raised ("none": no call did)
MissBranch(slot, a, r, n, drawOk) ==
    IF ~drawOk
    THEN [slot |-> slot, rendered |-> <<"Axes.draw">>, thrown |-> "Axes.draw"]
    ELSE IF CaptureRaises(a)
    THEN [slot |-> slot, rendered |-> <<"Axes.draw">>, thrown |-> "RenderCapture"]
    ELSE [slot |-> RenderCapture(a, r, n),
          rendered |-> <<"Axes.draw", "RenderCapture">>, thrown |-> "none"]

\* a hit branch that draws the cached frame last, over the ticks and spines
HitStepsCaptureLast(a, order) ==
    <<"axesPatch", "xaxis", "yaxis">> \o order \o <<CaptureDraw(a)>>

\* the cache-hit branch of AxesCache.draw: what is drawn, in order; order is
\* the iteration order of axes.spines
HitSteps(a, order) ==
    <<"axesPatch", CaptureDraw(a), "xaxis", "yaxis">> \o order

\* a draw that uses the frame up
DrawnFrameDropped(f, a) == None

\* a frame whose draw rebuilds its mesh for the Axes it is drawn on
DrawnFrameRemeshed(f, a) ==
    [f EXCEPT !.mesh = [xscale |-> a.xscale, yscale |-> a.yscale,
                        xlim |-> a.xlim, ylim |-> a.ylim, bbox |-> a.bbox]]

\* the frame after RenderCapture.draw on Axes a: draw assigns nothing
DrawnFrame(f, a) == f

\* a draw that swallows what its callees throw
EscapesNothing(exc) == "none"

\* AxesCache.draw has no try/except: what a callee throws escapes to the caller
Escapes(exc) == exc

\* the collections the host has put on the Axes; the meshes of the captures
\* are numbered from 1
HostCollections == {0}

\* the host's Axes as AxesCache.__init__ receives it: its own draw method,
\* linear scales
HostAxes(v, l) ==
    [xlim |-> v.xlim, ylim |-> v.ylim,
     xscale |-> "linear", yscale |-> "linear",
     bbox |-> [x |-> l.x, y |-> l.y],
     collections |-> HostCollections,
     draw |-> "Axes.draw"]

\* a connection of the canvas: handler is called on every event of that name
Connection(event, handler) == [event |-> event, handler |-> handler]

\* the canvas dispatches event to the connections cbs: refresh_on_mouseup
\* calls reset; the result is the slot afterwards
Dispatch(event, cbs, slot) ==
    IF \E i \in DOMAIN cbs :
          cbs[i] = Connection(event, "refresh_on_mouseup")
    THEN reset(slot)
    ELSE slot

\* a constructor that connects the reset to the resize event as well
AxesCacheInitResetOnResize(a, cbs) ==
    [axes |-> [a EXCEPT !.draw = "AxesCache.draw"],
     overview_img |-> None,
     callbacks |-> cbs \o
        <<Connection("button_release_event", "refresh_on_mouseup"),
          Connection("resize_event", "refresh_on_mouseup")>>]

\* a constructor that does not connect reset to the button release event
AxesCacheInitNoConnect(a, cbs) ==
    [axes |-> [a EXCEPT !.draw = "AxesCache.draw"],
     overview_img |-> None,
     callbacks |-> cbs]

\* AxesCache.__init__ on Axes a whose canvas has the connections cbs: the slot
\* is empty, draw is installed as the Axes' draw, refresh_on_mouseup is
\* connected to the button release event
AxesCacheInit(a, cbs) ==
    [axes |-> [a EXCEPT !.draw = "AxesCache.draw"],
     overview_img |-> None,
     callbacks |->
        Append(cbs, Connection("button_release_event", "refresh_on_mouseup"))]

\* AxesCache.__init__ has run on the host's Axes
Init ==
    /\ \E v \in Views, l \in Layouts :
          LET c == AxesCacheInit(HostAxes(v, l), <<>>)
          IN  /\ axes = c.axes
              /\ callbacks = c.callbacks
              /\ overview_img = c.overview_img
              /\ renderer = [width |-> l.width, height |-> l.height]
    /\ rendered = <<>>
    /\ drawnMesh = NoMesh
    /\ thrown = "none"
    /\ raised = "none"
    /\ fullDraws = 0
    /\ captures = 0
    /\ history = [op |-> "attach", draws |-> 0, returned |-> FALSE,
                  resets |-> 0, path |-> "", prevPath |-> ""]

\* history after a draw request; ok: it returned; path: the representation of
\* the cached frame it drew ("" on a miss)
Drawn(h, ok, path) ==
    [op |-> "draw", draws |-> Min(h.draws + 1, 1),
     returned |-> (h.returned \/ ok), resets |-> 0,
     path |-> path, prevPath |-> IF path = "" THEN "" ELSE h.path]

\* history after something that is neither a draw nor a button release
HostStep(h) == [h EXCEPT !.op = "host"]

\* a draw request on a cache miss; drawOk: Axes.draw returns normally
DrawMiss(drawOk) ==
    /\ axes.draw = "AxesCache.draw"
    /\ IsMiss(overview_img)
    /\ fullDraws < MaxFullDraws
    /\ LET out == MissBranch(overview_img, axes, renderer, captures + 1, drawOk)
       IN  /\ overview_img' = out.slot
           /\ rendered' = out.rendered
           /\ thrown' = out.thrown
           /\ raised' = Escapes(out.thrown)
    /\ drawnMesh' = NoMesh
    /\ fullDraws' = fullDraws + Count("Axes.draw", rendered')
    /\ captures' = captures + Count("RenderCapture", rendered')
    /\ history' = Drawn(history, raised' = "none", "")
    /\ axes' = IF Count("RenderCapture", rendered') = 1
               THEN [axes EXCEPT !.collections =
                                    CollectionsAfterCapture(@, captures + 1)]
               ELSE axes
    /\ UNCHANGED <<renderer, callbacks>>

\* a draw request on a cache hit; order: the iteration order of axes.spines
DrawHit(order) ==
    /\ axes.draw = "AxesCache.draw"
    /\ ~IsMiss(overview_img)
    /\ Count("Axes.draw", HitSteps(axes, order)) = 0 \/ fullDraws < MaxFullDraws
    /\ rendered' = HitSteps(axes, order)
    /\ drawnMesh' = MeshDrawn(overview_img, axes)
    /\ thrown' = "none"
    /\ raised' = Escapes("none")
    /\ fullDraws' = fullDraws + Count("Axes.draw", rendered')
    /\ captures' = captures + Count("RenderCapture", rendered')
    /\ history' = Drawn(history, TRUE, rendered'[2])
    /\ overview_img' = DrawnFrame(overview_img, axes)
    /\ UNCHANGED <<axes, renderer, callbacks>>

Draw ==
    \/ \E drawOk \in BOOLEAN : DrawMiss(drawOk)
    \/ \E order \in SpineOrders : DrawHit(order)

\* the canvas dispatches a button_release_event to the connected handlers
ButtonRelease ==
    /\ overview_img' = Dispatch("button_release_event", callbacks, overview_img)
    /\ rendered' = <<>>
    /\ drawnMesh' = NoMesh
    /\ thrown' = "none"
    /\ raised' = "none"
    /\ history' = [op |-> "release", draws |-> 0, returned |-> FALSE,
                   resets |-> Min(history.resets + 1, 2),
                   path |-> "", prevPath |-> ""]
    /\ UNCHANGED <<axes, renderer, callbacks, fullDraws, captures>>

\* the host changes an axis scale
SetScale ==
    /\ \E xs \in Scales, ys \in Scales :
          /\ <<xs, ys>> # <<axes.xscale, axes.yscale>>
          /\ axes' = [axes EXCEPT !.xscale = xs, !.yscale = ys]
    /\ rendered' = <<>>
    /\ drawnMesh' = NoMesh
    /\ thrown' = "none"
    /\ raised' = "none"
    /\ history' = HostStep(history)
    /\ UNCHANGED <<renderer, callbacks, overview_img, fullDraws, captures>>

\* the host pans or zooms: the view limits change
SetLim ==
    /\ \E v \in Views :
          /\ <<v.xlim, v.ylim>> # <<axes.xlim, axes.ylim>>
          /\ axes' = [axes EXCEPT !.xlim = v.xlim, !.ylim = v.ylim]
    /\ rendered' = <<>>
    /\ drawnMesh' = NoMesh
    /\ thrown' = "none"
    /\ raised' = "none"
    /\ history' = HostStep(history)
    /\ UNCHANGED <<renderer, callbacks, overview_img, fullDraws, captures>>

\* history after the host changes the layout; resized: the canvas has a new
\* size in device pixels
Relaid(h, resized) == [h EXCEPT !.op = IF resized THEN "resize" ELSE "host"]

\* the host resizes the canvas or moves the axes within it; the canvas
\* dispatches a resize_event
Resize ==
    /\ \E l \in Layouts :
          /\ <<l.width, l.height, l.x, l.y>> #
                <<renderer.width, renderer.height, axes.bbox.x, axes.bbox.y>>
          /\ renderer' = [width |-> l.width, height |-> l.height]
          /\ axes' = [axes EXCEPT !.bbox = [x |-> l.x, y |-> l.y]]
    /\ overview_img' = Dispatch("resize_event", callbacks, overview_img)
    /\ rendered' = <<>>
    /\ drawnMesh' = NoMesh
    /\ thrown' = "none"
    /\ raised' = "none"
    /\ history' = Relaid(history, renderer' # renderer)
    /\ UNCHANGED <<callbacks, fullDraws, captures>>

Next == Draw \/ ButtonRelease \/ SetScale \/ SetLim \/ Resize

Spec == Init /\ [][Next]_vars

(***************************************************************************)
(* Properties                                                              *)
(***************************************************************************)
\* the step is a draw request
DrawStep == history'.op = "draw"

\* the step is a button release
ReleaseStep == history'.op = "release"

\* C1: a draw request on an EMPTY slot invokes Axes.draw exactly once and
\* first; when the draw returns it has then constructed one RenderCapture from
\* that render and stored it, so the slot is FILLED; a RenderCapture is only
\* ever constructed after Axes.draw has returned.
C1_MissDrawThenCapture ==
    [][ (overview_img = None /\ DrawStep) =>
          /\ Len(rendered') >= 1 /\ rendered'[1] = "Axes.draw"
          /\ Count("Axes.draw", rendered') = 1
          /\ fullDraws' = fullDraws + 1
          /\ raised' = "none" =>
                /\ rendered' = <<"Axes.draw", "RenderCapture">>
                /\ captures' = captures + 1
                /\ overview_img' # None
                /\ overview_img'.id = captures'
                /\ overview_img'.mesh.bbox = axes.bbox
          /\ \A i \in DOMAIN rendered' :
                rendered'[i] = "RenderCapture" =>
                    /\ i = 2
                    /\ thrown' # "Axes.draw" ]_vars

\* a miss draw has just returned and left the slot FILLED
C1_Witness ==
    /\ history.op = "draw"
    /\ rendered = <<"Axes.draw", "RenderCapture">>
    /\ raised = "none"
    /\ overview_img # None

\* C2: a draw request on a FILLED slot never invokes Axes.draw, constructs no
\* capture and leaves the slot holding the same frame, however many draws
\* follow one another.
C2_HitDrawKeepsFrame ==
    [][ (overview_img # None /\ DrawStep) =>
          /\ Count("Axes.draw", rendered') = 0
          /\ Count("RenderCapture", rendered') = 0
          /\ fullDraws' = fullDraws
          /\ captures' = captures
          /\ overview_img' = overview_img ]_vars

\* two hit draws of the same frame have run since its capture, after one
\* full draw
C2_Witness ==
    /\ history.op = "draw"
    /\ history.prevPath # ""
    /\ overview_img # None
    /\ fullDraws = 1

\* C3 as stated: a draw invokes Axes.draw if and only if it is the first draw
\* since Attach or since the most recent button release.
C3_FullDrawIffFirstDraw ==
    [][ DrawStep =>
          ((fullDraws' = fullDraws + 1) <=> (history.draws = 0)) ]_vars

\* C3 amended: a draw invokes Axes.draw (once) if and only if no draw since
\* Attach or since the most recent button release has returned normally; a
\* button release on a FILLED slot empties it, and the draw after it raises
\* the full-draw count by exactly 1.
C3_FullDrawIffNoneReturned ==
    [][ /\ DrawStep =>
             /\ (fullDraws' = fullDraws + 1) <=> ~history.returned
             /\ fullDraws' = fullDraws \/ fullDraws' = fullDraws + 1
             /\ (Count("Axes.draw", rendered') = 1) <=> ~history.returned
        /\ (ReleaseStep /\ overview_img # None) => overview_img' = None
        /\ (DrawStep /\ history.op = "release") => fullDraws' = fullDraws + 1
      ]_vars

\* a full draw, a hit draw, a button release, then the second full draw
C3_Witness ==
    /\ history.op = "draw"
    /\ history.draws = 1
    /\ fullDraws = 2
    /\ captures = 2
    /\ rendered = <<"Axes.draw", "RenderCapture">>

\* C4: Reset empties the slot whatever it holds; on an EMPTY slot it changes
\* nothing of the cache; a second Reset in a row leaves what the first left;
\* the draw after one or more Resets is a full draw.
C4_ResetIdempotent ==
    [][ /\ ReleaseStep =>
             /\ overview_img' = None
             /\ overview_img = None =>
                   UNCHANGED <<overview_img, fullDraws, captures, axes,
                               renderer, callbacks>>
             /\ history.op = "release" =>
                   UNCHANGED <<overview_img, fullDraws, captures, axes,
                               renderer, callbacks>>
        /\ (DrawStep /\ history.resets >= 1) =>
             /\ rendered'[1] = "Axes.draw"
             /\ fullDraws' = fullDraws + 1
      ]_vars

\* two Resets in a row have run on a slot that was FILLED before them
C4_Witness ==
    /\ history.op = "release"
    /\ history.resets = 2
    /\ captures >= 1
    /\ overview_img = None

\* the names of the spines
SpineNames == { Spines[i] : i \in DOMAIN Spines }

\* C5: a cache-hit draw draws, in this order and nothing else: the background
\* patch, the cached frame (image or mesh), the x axis, the y axis, then every
\* spine once; the frame is never drawn after an axis or a spine.
C5_HitDrawOrder ==
    [][ (overview_img # None /\ DrawStep) =>
          /\ Len(rendered') = 4 + Cardinality(SpineNames)
          /\ rendered'[1] = "axesPatch"
          /\ rendered'[2] \in {"im", "mesh"}
          /\ rendered'[3] = "xaxis"
          /\ rendered'[4] = "yaxis"
          /\ { rendered'[i] : i \in 5..Len(rendered') } = SpineNames
          /\ \A i \in 3..Len(rendered') : rendered'[i] \notin {"im", "mesh"}
      ]_vars

\* a hit draw has run with the spines in another order than the dict was filled
C5_Witness ==
    /\ history.op = "draw"
    /\ Len(rendered) = 8
    /\ rendered[1] = "axesPatch"
    /\ rendered[5] = "top"

\* a completely constructed capture: a non-empty crop, one row per pixel row
\* and one column per pixel column of the inset box
ValidFrame(f) ==
    /\ f.id \in 1..captures
    /\ f.rows # {} /\ f.cols # {}
    /\ Cardinality(f.rows) = f.py[2] - f.py[1] + 1
    /\ Cardinality(f.cols) = f.px[2] - f.px[1] + 1

\* C6: the slot is always either empty or holds one completely constructed
\* capture; a draw is a cache miss exactly when the slot is empty and a cache
\* hit exactly when it holds a frame.
C6_SlotEmptyOrValid ==
    /\ [](overview_img = None \/ ValidFrame(overview_img))
    /\ [][ DrawStep =>
             /\ (overview_img = None) <=> (rendered'[1] = "Axes.draw")
             /\ (overview_img # None) <=> (rendered'[1] = "axesPatch") ]_vars

\* the slot is EMPTY after a draw whose capture failed, and FILLED states exist
C6_Witness ==
    /\ history.op = "draw"
    /\ thrown = "RenderCapture"
    /\ overview_img = None
    /\ captures >= 1

\* C7: when Axes.draw fails during a cache-miss draw, the failure reaches the
\* caller, no RenderCapture is constructed and the slot stays EMPTY; the next
\* draw attempts the full draw again.
C7_FailedFullDrawPropagates ==
    [][ /\ (DrawStep /\ thrown' = "Axes.draw") =>
             /\ raised' = "Axes.draw"
             /\ Count("RenderCapture", rendered') = 0
             /\ captures' = captures
             /\ overview_img = None
             /\ overview_img' = None
        /\ (DrawStep /\ history.op = "draw" /\ thrown = "Axes.draw") =>
             /\ rendered'[1] = "Axes.draw"
             /\ fullDraws' = fullDraws + 1
      ]_vars

\* the full draw has failed twice in a row and the slot is still EMPTY
C7_Witness ==
    /\ history.op = "draw"
    /\ raised = "Axes.draw"
    /\ fullDraws = 2
    /\ captures = 0
    /\ overview_img = None

\* C8: when the inset rectangle is degenerate, a cache-miss draw whose full
\* draw succeeds completes without error and neither constructs nor stores a
\* capture.
C8_DegenerateViewDrawsWithoutError ==
    [][ (DrawStep /\ overview_img = None /\ Degenerate(axes)
            /\ thrown' # "Axes.draw") =>
          /\ raised' = "none"
          /\ captures' = captures
          /\ overview_img' = None ]_vars

\* C9: a hit draw draws the image if and only if both scales are linear at
\* that draw and the mesh otherwise; it does so without a full draw or a new
\* capture, so a change of scale between two hit draws changes the path only.
C9_PathFollowsCurrentScales ==
    [][ (overview_img # None /\ DrawStep) =>
          /\ (rendered'[2] = "im") <=>
                (axes.xscale = "linear" /\ axes.yscale = "linear")
          /\ (rendered'[2] = "mesh") <=>
                ~(axes.xscale = "linear" /\ axes.yscale = "linear")
          /\ overview_img' = overview_img
          /\ captures' = captures
          /\ fullDraws' = fullDraws ]_vars

\* two hit draws of one frame, captured under linear scales, took the image
\* path and then the mesh path
C9_Witness ==
    /\ history.op = "draw"
    /\ history.prevPath = "im"
    /\ history.path = "mesh"
    /\ overview_img # None
    /\ overview_img.mesh.xscale = "linear"
    /\ overview_img.mesh.yscale = "linear"

\* the step is a cache-miss draw whose full draw returned
CaptureAttempt == DrawStep /\ overview_img = None /\ thrown' # "Axes.draw"

\* the width and height of the view between its truncated device corners
PixelSize(a) ==
    LET c == InsetCorners(a)
    IN  <<c.hi[1] - c.lo[1] + 2 * Inset, c.hi[2] - c.lo[2] + 2 * Inset>>

Abs(n) == IF n >= 0 THEN n ELSE -n

\* C10 as stated: for a view of device width W > 10 and height H > 10 the
\* capture (when one is made) crops exactly W - 10 columns and H - 10 rows.
C10_CropIsViewMinus10 ==
    [][ (CaptureAttempt /\ ViewSize(axes)[1] > 10 * Sub
            /\ ViewSize(axes)[2] > 10 * Sub /\ overview_img' # None) =>
          /\ Cardinality(overview_img'.cols) * Sub = ViewSize(axes)[1] - 10 * Sub
          /\ Cardinality(overview_img'.rows) * Sub = ViewSize(axes)[2] - 10 * Sub
      ]_vars

\* C10 amended: for a view within the canvas whose device corners, truncated
\* to whole pixels, are more than 10 pixels apart in x and in y, the capture
\* crops exactly (int(x1) - int(x0) - 10) columns by (int(y1) - int(y0) - 10)
\* rows, 5 pixels in from each truncated corner; that is (W - 10) by (H - 10)
\* when W and H are whole numbers of pixels, and less than one pixel away
\* from it otherwise.
C10_CropIsTruncatedViewMinus10 ==
    [][ (CaptureAttempt /\ PixelSize(axes)[1] > 10 /\ PixelSize(axes)[2] > 10) =>
          LET t == TransDataCorners(axes)
              w == PixelSize(axes)[1]
              h == PixelSize(axes)[2]
              W == ViewSize(axes)[1]
              H == ViewSize(axes)[2]
          IN  /\ overview_img' # None
              /\ overview_img'.cols =
                    (AsTypeInt(t[1][1]) + 5) .. (AsTypeInt(t[2][1]) - 5 - 1)
              /\ Cardinality(overview_img'.cols) = w - 10
              /\ Cardinality(overview_img'.rows) = h - 10
              /\ W % Sub = 0 => Cardinality(overview_img'.cols) * Sub = W - 10 * Sub
              /\ H % Sub = 0 => Cardinality(overview_img'.rows) * Sub = H - 10 * Sub
              /\ Abs(Cardinality(overview_img'.cols) * Sub - (W - 10 * Sub)) < Sub
              /\ Abs(Cardinality(overview_img'.rows) * Sub - (H - 10 * Sub)) < Sub
      ]_vars

\* a capture has just been made of a view with a fractional left edge
C10_Witness ==
    /\ history.op = "draw"
    /\ rendered = <<"Axes.draw", "RenderCapture">>
    /\ overview_img # None
    /\ axes.bbox.x[1] % Sub # 0
    /\ ViewSize(axes)[1] > 10 * Sub
    /\ ViewSize(axes)[2] > 10 * Sub

\* |n / d - v| <= tol, for a fraction <<n, d>> with d > 0
Within(f, v, tol) == Abs(f[1] - v * f[2]) <= tol * f[2]

\* C11: the stored extent (x-min, x-max, y-min, y-max), transformed back to
\* device coordinates with the transform active at capture, gives the lower
\* and upper corners of the inset rectangle, each coordinate within one pixel.
C11_ExtentRoundTrip ==
    [][ (CaptureAttempt /\ overview_img' # None) =>
          LET e == overview_img'.extent
              c == InsetCorners(axes)
              X(d) == Transform(axes.xlim, axes.xscale, axes.bbox.x, d)
              Y(d) == Transform(axes.ylim, axes.yscale, axes.bbox.y, d)
          IN  /\ Within(X(e[1]), c.lo[1] * Sub, Sub)
              /\ Within(X(e[2]), c.hi[1] * Sub, Sub)
              /\ Within(Y(e[3]), c.lo[2] * Sub, Sub)
              /\ Within(Y(e[4]), c.hi[2] * Sub, Sub) ]_vars

\* a capture has just been made under a log y scale of a view with a
\* fractional edge
C11_Witness ==
    /\ history.op = "draw"
    /\ rendered = <<"Axes.draw", "RenderCapture">>
    /\ overview_img # None
    /\ axes.yscale = "log"
    /\ axes.bbox.y[2] % Sub # 0

\* C12: Attach leaves the slot EMPTY; after it, in every reachable state, the
\* Axes' draw handler is AxesCache.draw and reset is connected to the button
\* release event.
C12_AttachedForGood ==
    /\ axes.draw = "AxesCache.draw"
    /\ \E i \in DOMAIN callbacks :
          callbacks[i] = Connection("button_release_event", "refresh_on_mouseup")
    /\ history.op = "attach" => overview_img = None

\* draws, captures and a button release have happened since Attach and the
\* handler and the subscription are still in place
C12_Witness ==
    /\ history.op = "release"
    /\ captures >= 2
    /\ axes.draw = "AxesCache.draw"
    /\ callbacks = <<Connection("button_release_event", "refresh_on_mouseup")>>

\* the scales under which a mesh grid was computed
MeshScales(m) == <<m.xscale, m.yscale>>

\* C13 as stated: a mesh drawn while the scales differ from those at capture
\* has been recomputed for the current scales.
C13_MeshRecomputedForCurrentScales ==
    (drawnMesh # NoMesh /\ overview_img # None
        /\ MeshScales(overview_img.mesh) # <<axes.xscale, axes.yscale>>) =>
      MeshScales(drawnMesh) = <<axes.xscale, axes.yscale>>

\* C13 amended: whenever a cached frame is drawn on the mesh path, the mesh
\* drawn is the one built at capture time, from the data coordinates of the
\* transform then active, also when the scales have changed since; only the
\* choice between image and mesh follows the current scales.
C13_MeshIsTheCapturedOne ==
    /\ (drawnMesh # NoMesh) <=>
          /\ history.op = "draw"
          /\ history.path = "mesh"
    /\ drawnMesh # NoMesh =>
          /\ overview_img # None
          /\ drawnMesh = overview_img.mesh
          /\ ~(axes.xscale = "linear" /\ axes.yscale = "linear")

\* a frame captured under linear scales has been drawn as a mesh under
\* another scale
C13_Witness ==
    /\ drawnMesh # NoMesh
    /\ MeshScales(drawnMesh) = <<"linear", "linear">>
    /\ axes.yscale = "log"

\* the data coordinate d is exactly the view limit v
IsLimit(d, v) == d.q[1] = ScaleOf(d.scale, v) * d.q[2]

\* C14 as stated: the extent stored by a capture is exactly the view bounds
\* (xlim, ylim) active at the capture.
C14_ExtentIsViewBounds ==
    [][ (CaptureAttempt /\ overview_img' # None) =>
          LET e == overview_img'.extent
          IN  /\ IsLimit(e[1], axes.xlim[1]) /\ IsLimit(e[2], axes.xlim[2])
              /\ IsLimit(e[3], axes.ylim[1]) /\ IsLimit(e[4], axes.ylim[2])
      ]_vars

\* the data coordinate d is that of device pixel p, for limits lim shown over
\* the device extent b: (d - s0) / (s1 - s0) = (p - b[1]) / (b[2] - b[1])
IsDataOfPixel(d, p, lim, b) ==
    LET s0 == ScaleOf(d.scale, lim[1])
        s1 == ScaleOf(d.scale, lim[2])
    IN  (d.q[1] - s0 * d.q[2]) * (b[2] - b[1]) =
            (p * Sub - b[1]) * (s1 - s0) * d.q[2]

\* the data coordinate d lies strictly between the view limits lim
StrictlyInside(d, lim) ==
    LET s0 == ScaleOf(d.scale, lim[1])
        s1 == ScaleOf(d.scale, lim[2])
    IN  (d.q[1] - s0 * d.q[2]) * (s1 * d.q[2] - d.q[1]) > 0

\* C14 amended: the extent stored by a capture is, under the scales and the
\* transform active at the capture, the data coordinates of the first and the
\* last pixel column and pixel row of the inset box (int(corner) + 5 and
\* int(corner) - 6); each lies strictly inside the view bounds active at the
\* capture.
C14_ExtentIsInsetBoxInData ==
    [][ (CaptureAttempt /\ overview_img' # None) =>
          LET e  == overview_img'.extent
              bx == axes.bbox.x
              by == axes.bbox.y
          IN  /\ e[1].scale = axes.xscale /\ e[2].scale = axes.xscale
              /\ e[3].scale = axes.yscale /\ e[4].scale = axes.yscale
              /\ IsDataOfPixel(e[1], AsTypeInt(bx[1]) + 5, axes.xlim, bx)
              /\ IsDataOfPixel(e[2], AsTypeInt(bx[2]) - 6, axes.xlim, bx)
              /\ IsDataOfPixel(e[3], AsTypeInt(by[1]) + 5, axes.ylim, by)
              /\ IsDataOfPixel(e[4], AsTypeInt(by[2]) - 6, axes.ylim, by)
              /\ \A i \in 1..2 : StrictlyInside(e[i], axes.xlim)
              /\ \A i \in 3..4 : StrictlyInside(e[i], axes.ylim)
      ]_vars

\* a capture has just been made of a view with an inverted y axis
C14_Witness ==
    /\ history.op = "draw"
    /\ rendered = <<"Axes.draw", "RenderCapture">>
    /\ overview_img # None
    /\ axes.ylim[1] > axes.ylim[2]
    /\ overview_img.extent[3].scale = axes.yscale

\* C15: the rows and columns a capture crops are exactly the buffer rows and
\* columns that show the inset rectangle of the view, wherever the view lies
\* in the canvas.
C15_CropShowsInsetBox ==
    [][ (CaptureAttempt /\ overview_img' # None) =>
          LET c == GetCorners(axes)
          IN  /\ overview_img'.cols = { c.px[i] : i \in DOMAIN c.px }
              /\ overview_img'.rows =
                    { BufferRow(c.py[i], renderer.height) : i \in DOMAIN c.py }
      ]_vars

\* C16: drawing a captured frame changes nothing of the cache: the slot and
\* the frame's image, mesh and extent are after the draw what they were before
\* it; a draw of the frame right after a draw of it renders the same
\* representation.
C16_FrameDrawIsPure ==
    [][ (DrawStep /\ overview_img # None) =>
          /\ overview_img' = overview_img
          /\ UNCHANGED <<axes, renderer, callbacks, captures>>
          /\ (history.op = "draw" /\ history.path # "") =>
                 history'.path = history.path
      ]_vars

\* the frame has been drawn twice in a row on the mesh path, on a view other
\* than the captured one
C16_Witness ==
    /\ history.op = "draw"
    /\ history.path = "mesh"
    /\ history.prevPath = "mesh"
    /\ overview_img # None
    /\ overview_img.mesh.xlim # axes.xlim

\* the step is a draw on a FILLED slot right after a change of the canvas
\* size, on the view the frame was captured of
DrawOfResized ==
    /\ DrawStep
    /\ history.op = "resize"
    /\ overview_img # None
    /\ <<overview_img.mesh.xlim, overview_img.mesh.ylim>> = <<axes.xlim, axes.ylim>>

\* C17 as stated: a change of the canvas size while the cache is FILLED
\* invalidates it: the next draw is a full draw.
C17_ResizeInvalidates ==
    [][ DrawOfResized => rendered'[1] = "Axes.draw" ]_vars

\* C17: a change of the canvas size leaves the slot as it is; the next draw on
\* a FILLED slot is a cache hit that draws the frame captured at the old size,
\* without a full draw or a capture.
C17_ResizeKeepsFrame ==
    [][ /\ history'.op = "resize" => overview_img' = overview_img
        /\ DrawOfResized =>
              /\ rendered'[1] = "axesPatch"
              /\ rendered'[2] = CaptureDraw(axes)
              /\ Count("Axes.draw", rendered') = 0
              /\ Count("RenderCapture", rendered') = 0
              /\ overview_img' = overview_img
      ]_vars

\* a frame captured on a 32 pixel wide canvas has just been drawn on a 40
\* pixel wide one
C17_Witness ==
    /\ history.op = "draw"
    /\ history.path # ""
    /\ overview_img # None
    /\ overview_img.mesh.bbox # axes.bbox
    /\ renderer.width = 40
    /\ overview_img.px[2] < 32

\* C18: the slot changes only in a cache-miss draw, from EMPTY to FILLED, and
\* in Reset, to EMPTY; a change of the view limits, a change of scale and a
\* cache-hit draw leave it as it is, so a draw on a FILLED slot serves the
\* frame it holds whatever the view has become since the capture.
C18_SlotChangesOnlyByMissAndReset ==
    [][ /\ overview_img' # overview_img =>
              \/ DrawStep /\ overview_img = None /\ overview_img' # None
              \/ ReleaseStep /\ overview_img' = None
        /\ (DrawStep /\ overview_img # None) =>
              /\ overview_img' = overview_img
              /\ rendered'[2] = CaptureDraw(axes)
              /\ Count("Axes.draw", rendered') = 0
      ]_vars

\* the frame has just been served on a view and under scales other than the
\* ones it was captured of
C18_Witness ==
    /\ history.op = "draw"
    /\ history.path # ""
    /\ overview_img # None
    /\ overview_img.mesh.xlim # axes.xlim
    /\ MeshScales(overview_img.mesh) # <<axes.xscale, axes.yscale>>

\* the view is 10 device pixels or less wide or tall
SmallView(a) == ViewSize(a)[1] <= 10 * Sub \/ ViewSize(a)[2] <= 10 * Sub

\* a view limit pair runs downwards
InvertedView(a) == a.xlim[1] > a.xlim[2] \/ a.ylim[1] > a.ylim[2]

\* C19 as stated: the capture fails when the view is 10 device pixels or less
\* wide or tall and when the view bounds are inverted; the error then leaves
\* draw and the slot stays EMPTY.
C19_CaptureFailsOnSmallOrInvertedView ==
    [][ (CaptureAttempt /\ (SmallView(axes) \/ InvertedView(axes))) =>
          /\ raised' = "RenderCapture"
          /\ overview_img' = None
      ]_vars

\* C19: when the capture fails after the full draw has returned (it does on
\* every view 10 device pixels or less wide or tall), the error leaves draw
\* and the slot stays EMPTY; the next draw is a full draw again, and when that
\* full draw returns the capture fails again and the slot is still EMPTY.
C19_CaptureFailureRepeats ==
    [][ /\ (CaptureAttempt /\ SmallView(axes)) => thrown' = "RenderCapture"
        /\ (DrawStep /\ thrown' = "RenderCapture") =>
              /\ rendered' = <<"Axes.draw">>
              /\ raised' = "RenderCapture"
              /\ overview_img = None /\ overview_img' = None
        /\ (DrawStep /\ thrown = "RenderCapture") =>
              /\ rendered'[1] = "Axes.draw"
              /\ thrown' \in {"Axes.draw", "RenderCapture"}
              /\ overview_img' = None
      ]_vars

\* two draws in a row have failed in the capture, on a view 10 pixels tall
C19_Witness ==
    /\ history.op = "draw"
    /\ raised = "RenderCapture"
    /\ fullDraws >= 2
    /\ captures = 0
    /\ SmallView(axes)
    /\ overview_img = None

\* C20: a capture leaves the collections of the Axes as they were before it:
\* the mesh it builds is taken out of them again, so no mesh of a capture is
\* among what a later full draw renders, however many captures there have been.
C20_CaptureLeavesCollections ==
    [][ DrawStep =>
          /\ axes'.collections = axes.collections
          /\ \A n \in 1..captures' : n \notin axes'.collections
      ]_vars

\* a second capture has just been made, after a miss, a button release and
\* another miss
C20_Witness ==
    /\ history.op = "draw"
    /\ Count("RenderCapture", rendered) = 1
    /\ captures >= 2
    /\ overview_img # None
    /\ axes.collections = HostCollections

====
